---------------------------- MODULE Spec2Model ----------------------------
(***************************************************************************)
(* Verification model of the user-defined code of the tutorial notebooks   *)
(*   src/02-Function-Calculators.ipynb   RectangularProfile, the profile   *)
(*                                       registry cell, CarbonChain and    *)
(*                                       convertCarbonChain,               *)
(*                                       LennardJonesCalculator            *)
(*   src/08-Orient-Naphthalene.ipynb     getCrystalWithMolecule, quatzero, *)
(*                                       the FitRecipe script              *)
(*                                                                         *)
(* Real numbers are modelled exactly: rationals are pairs <<n, d>> in      *)
(* lowest terms with d > 0.  Every notebook component has its own          *)
(* specification over the shared variables; the variables of the other     *)
(* components stay at their idle values.                                   *)
(***************************************************************************)
EXTENDS Integers, Sequences, FiniteSets

VARIABLES
    \* ---- RectangularProfile and the PeakProfile registry (notebook 02)
    x,          \* position of the last RectangularProfile.__call__
    fwhm,       \* width of the last RectangularProfile.__call__
    y,          \* value returned by the last __call__, NoValue before it
    registry,   \* PeakProfile registry: type name -> number of prototypes
    cellerror,  \* exception raised by the last cell evaluation, "none" if none
    cellruns,   \* how many times the registration cell was evaluated
    peakprofile, \* pdfc.peakprofile: type name of the assigned profile
    \* ---- quatzero, the calculator behind the constraint of q0 (notebook 08)
    q1, q2, q3, \* arguments of the last quatzero.__call__
    q0,         \* value returned by the last quatzero.__call__
    \* ---- getCrystalWithMolecule (notebook 08)
    cif,        \* the atom scatterers stored in the CIF file
    cell,       \* length of the unit cell edge stored in the CIF file
    crst,       \* scatterers of the crystal crst, in order
    mol,        \* atoms of the Molecule mol, in order
    todo,       \* indices the for loop still has to visit
    gpc,        \* position in getCrystalWithMolecule
    \* ---- CarbonChain and convertCarbonChain (notebook 02)
    thechain,   \* the CarbonChain object c5: its Uiso and its list z
    adpt,       \* adapter returned by the last createStructureAdapter(c5)
    converted,  \* the chain as it was when that adapter was made
    \* ---- LennardJonesCalculator (notebook 02)
    epsilon,    \* ljcalc.epsilon
    sigma,      \* ljcalc.sigma
    structure,  \* the structure adapter ljcalc holds from its last evaluation
    usefullsum, \* whether the pair loop visits both orders of every pair
    vljtotal,   \* ljcalc._vljtotal
    lastcall,   \* the last call of ljcalc: arguments, parameters and result
    prevcall,   \* the call of ljcalc before the last one
    \* ---- the FitRecipe and the cells that drive it (ocfit of notebook 08,
    \*      thefit of notebook 05)
    varvalues,  \* value of every variable of the recipe, by name
    varfixed,   \* whether the variable is fixed, by name
    initial,    \* the values right after the recipe was defined
    fitted,     \* for every leastsq call so far, the variables it refined
    fpc,        \* the next cell of the notebook
    \* ---- the BVS restraint and the sig sweep (notebook 05)
    rbvsig,     \* rbv.sig, written as its decimal exponent: sig = 10^exponent
    avalues,    \* the list avalues of the sweep cell
    firstfit    \* the values the first chattyfit() ended with

profileVars == <<x, fwhm, y, registry, cellerror, cellruns, peakprofile>>
quatVars == <<q0, q1, q2, q3>>
molVars == <<cif, cell, crst, mol, todo, gpc>>
chainVars == <<thechain, adpt, converted>>
ljVars == <<epsilon, sigma, structure, usefullsum, vljtotal, lastcall, prevcall>>
fitVars == <<varvalues, varfixed, initial, fitted, fpc>>
naclVars == <<rbvsig, avalues, firstfit>>

vars == <<profileVars, quatVars, molVars, chainVars, ljVars, fitVars, naclVars>>

NoValue == "NoValue"

-----------------------------------------------------------------------------
(* Exact rational arithmetic standing for Python float arithmetic.         *)

RECURSIVE GCD(_, _)
GCD(m, n) == IF n = 0 THEN m ELSE GCD(n, m % n)

Abs(n) == IF n < 0 THEN -n ELSE n

\* the rational n/d (d # 0) in lowest terms with positive denominator
Rat(n, d) ==
    LET g == GCD(Abs(n), Abs(d))
        s == IF d < 0 THEN -1 ELSE 1
    IN  <<(s * n) \div g, (s * d) \div g>>

Zero == Rat(0, 1)
One == Rat(1, 1)
Half == Rat(1, 2)

RatAdd(p, q) == Rat(p[1] * q[2] + q[1] * p[2], p[2] * q[2])
RatNeg(p) == <<-p[1], p[2]>>
RatSub(p, q) == RatAdd(p, RatNeg(q))
RatMul(p, q) == Rat(p[1] * q[1], p[2] * q[2])
\* p / q; q # 0 (Python raises ZeroDivisionError otherwise)
RatDiv(p, q) == Rat(p[1] * q[2], p[2] * q[1])
RatLt(p, q) == p[1] * q[2] < q[1] * p[2]
RatLe(p, q) == p[1] * q[2] <= q[1] * p[2]

-----------------------------------------------------------------------------
(* RectangularProfile                                                      *)

\* inputs are multiples of 1/GridDen
GridDen == 2
MaxX == 4
MaxFwhm == 4

XValues == {Rat(k, GridDen) : k \in -MaxX..MaxX}
\* zero and negative widths are passed through the same code
FwhmValues == {Rat(w, GridDen) : w \in -1..MaxFwhm}

\* a mutant of the interval test: closed instead of open interval
insideClosed(xx, ff) ==
    /\ RatLe(RatNeg(RatDiv(ff, Rat(2, 1))), xx)
    /\ RatLe(xx, RatDiv(ff, Rat(2, 1)))

\* inside = (-fwhm/2.0 < x < +fwhm/2.0)
inside(xx, ff) ==
    /\ RatLt(RatNeg(RatDiv(ff, Rat(2, 1))), xx)
    /\ RatLt(xx, RatDiv(ff, Rat(2, 1)))

\* a mutant of the height: unit height instead of unit area
RectangularProfileUnitHeight(xx, ff) ==
    IF inside(xx, ff) THEN One ELSE Zero

\* RectangularProfile.__call__(x, fwhm)
RectangularProfileCall(xx, ff) ==
    IF inside(xx, ff) THEN RatDiv(One, ff) ELSE Zero

\* RectangularProfile.xboundhi(fwhm)
xboundhi(ff) == RatMul(Half, ff)

\* RectangularProfile.xboundlo(fwhm)
xboundlo(ff) == RatMul(RatNeg(Half), ff)

\* RectangularProfile.type()
RectangularProfileType == "rectangularprofile"

\* the profile types libdiffpy registers itself
BuiltinTypes == {"gaussian", "croppedgaussian"}
TypeNames == BuiltinTypes \cup {RectangularProfileType}

\* the calculator evaluates the profile at some position and width
EvalProfile ==
    \E xx \in XValues, ff \in FwhmValues :
        /\ x' = xx
        /\ fwhm' = ff
        /\ y' = RectangularProfileCall(xx, ff)
        /\ UNCHANGED <<registry, cellerror, cellruns, peakprofile>>

\* a mutant of the cell: the deregistration does nothing
deregisterTypeKeeps(reg, tp) == reg

\* PeakProfile._deregisterType(tp): erases the prototype when there is one
\* and reports nothing when there is none
deregisterType(reg, tp) == [reg EXCEPT ![tp] = 0]

\* prof._registerThisType() raises when the type name is registered already
registerRaises(reg, tp) == reg[tp] > 0

\* prof._registerThisType() on a free name: stores one prototype
registerThisType(reg, tp) == [reg EXCEPT ![tp] = reg[tp] + 1]

\* how many evaluations of the registration cell are followed
MaxRuns == 3

\* the cell "deregister to allow repeated evaluations":
\*     PeakProfile._deregisterType('rectangularprofile')
\*     RectangularProfile()._registerThisType()
RegistrationCell ==
    /\ cellruns < MaxRuns
    /\ cellruns' = cellruns + 1
    /\ LET reg == deregisterType(registry, "rectangularprofile")
       IN  IF registerRaises(reg, RectangularProfileType)
           THEN /\ registry' = reg
                /\ cellerror' = "RuntimeError"
           ELSE /\ registry' = registerThisType(reg, RectangularProfileType)
                /\ cellerror' = "none"
    /\ UNCHANGED <<x, fwhm, y, peakprofile>>

\* pdfc.peakprofile = 'rectangularprofile': the prototype is looked up by
\* name; an unknown name raises and leaves the calculator as it was
AssignProfileByName ==
    /\ peakprofile' = IF registry[RectangularProfileType] > 0
                      THEN RectangularProfileType
                      ELSE peakprofile
    /\ UNCHANGED <<x, fwhm, y, registry, cellerror, cellruns>>

\* a fresh kernel: only the built-in profiles are registered; a kernel in
\* which the class cell was run before has the new name as well
InitProfile ==
    /\ x = NoValue
    /\ fwhm = NoValue
    /\ y = NoValue
    /\ registry \in {[t \in TypeNames |-> IF t \in BuiltinTypes \/ withnew
                                         THEN 1 ELSE 0] :
                      withnew \in BOOLEAN}
    /\ cellerror = "none"
    /\ cellruns = 0
    /\ peakprofile = "gaussian"


-----------------------------------------------------------------------------
(* quatzero                                                                *)

\* quaternion components are multiples of 1/QuatDen in -MaxQ/QuatDen..MaxQ/QuatDen
QuatDen == 2
MaxQ == 3

QValues == {Rat(k, QuatDen) : k \in -MaxQ..MaxQ}

\* np.sqrt(r) for r >= 0: the non-negative real whose square is r.  The
\* root of a rational is irrational in general, so a non-negative real is
\* written as the root of its square.
sqrt(r) == <<"sqrt", r>>

\* v**2 of a non-negative real written as above
Square(v) == v[2]

\* the float 0.0 in the same notation
RealZero == sqrt(Zero)

\* a mutant of quatzero: the sum of squares leaves out q3
quatzeroOmitsQ3(a1, a2, a3) ==
    LET ssq == RatAdd(RatMul(a1, a1), RatMul(a2, a2))
    IN  IF RatLt(ssq, One) THEN sqrt(RatSub(One, ssq)) ELSE RealZero

\* quatzero.__call__(q1, q2, q3)
quatzero(a1, a2, a3) ==
    LET ssq == RatAdd(RatAdd(RatMul(a1, a1), RatMul(a2, a2)), RatMul(a3, a3))
    IN  IF RatLt(ssq, One) THEN sqrt(RatSub(One, ssq)) ELSE RealZero

\* ocfit.constrain(pwmol.q0, 'fixq0(wq1, wq2, wq3)'): whenever the recipe
\* sets wq1, wq2, wq3 it calls the registered calculator for q0
EvalQuatzero ==
    \E a1 \in QValues, a2 \in QValues, a3 \in QValues :
        /\ q1' = a1
        /\ q2' = a2
        /\ q3' = a3
        /\ q0' = quatzero(a1, a2, a3)

\* before the first call
InitQuat ==
    /\ q1 = NoValue
    /\ q2 = NoValue
    /\ q3 = NoValue
    /\ q0 = NoValue


-----------------------------------------------------------------------------
(* getCrystalWithMolecule                                                  *)

\* the largest number of atom sites in the CIF file
MaxAtoms == 3

\* CIF site labels: element symbol and serial number, as in "C1", "H1"
Labels == {"C", "H"} \X (1..MaxAtoms)

\* fractional coordinates are multiples of 1/FracDen
FracDen == 2
FracValues == {Rat(k, FracDen) : k \in 0..1}

\* cell edges in the CIF file
CellValues == {Rat(2, 1), Rat(3, 1)}

\* an atom scatterer as CreateCrystalFromCIF builds it with
\* oneScatteringPowerPerElement=True: the scattering power is the element's
Atom(label, frac) ==
    [kind |-> "atom", name |-> label, sp |-> label[1], X |-> frac,
     atoms |-> <<>>]

\* the crystals myLoadCrystal can return: site labels are unique
CifCrystals ==
    UNION {{c \in [1..n -> {Atom(l, f) : l \in Labels, f \in FracValues}] :
               \A j, k \in 1..n : j # k => c[j].name # c[k].name} :
           n \in 1..MaxAtoms}

\* crst.FractionalToOrthonormalCoords(x): one axis of an orthogonal cell
FractionalToOrthonormalCoords(frac) == RatMul(frac, cell)

\* a mutant of the loop order: range(n) instead of reversed(range(n))
rangeForward(n) == [k \in 1..n |-> k - 1]

\* reversed(range(n)): n-1, n-2, ..., 0
reversedRange(n) == [k \in 1..n |-> n - k]

\* the sequence without its element at 0-based index i
RemoveAt(seq, i) ==
    [k \in 1..(Len(seq) - 1) |-> IF k <= i THEN seq[k] ELSE seq[k + 1]]

\* crst = myLoadCrystal(ciffilename); mol = Molecule(crst, "mol"); the
\* range of the for loop is evaluated once
LoadCrystal ==
    /\ gpc = "start"
    /\ crst' = cif
    /\ mol' = <<>>
    /\ todo' = reversedRange(Len(cif))
    /\ gpc' = "loop"
    /\ UNCHANGED <<cif, cell>>

\* one pass of the loop body; GetScatterer raises on an index that is
\* out of range
LoopBody ==
    /\ gpc = "loop"
    /\ todo # <<>>
    /\ LET i == Head(todo)
       IN  IF i >= Len(crst)
           THEN /\ gpc' = "IndexError"
                /\ UNCHANGED <<crst, mol, todo>>
           ELSE LET a == crst[i + 1]
                    xc == FractionalToOrthonormalCoords(a.X)
                IN  /\ mol' = Append(mol, [name |-> a.name, sp |-> a.sp,
                                            xc |-> xc])
                    /\ crst' = RemoveAt(crst, i)
                    /\ todo' = Tail(todo)
                    /\ gpc' = "loop"
    /\ UNCHANGED <<cif, cell>>

\* crst.AddScatterer(mol); mol.X, mol.Y, mol.Z = xyzmol; return crst
AddMolecule ==
    /\ gpc = "loop"
    /\ todo = <<>>
    /\ crst' = Append(crst, [kind |-> "molecule", name |-> <<"mol", 0>>,
                              sp |-> "none", X |-> Zero, atoms |-> mol])
    /\ gpc' = "done"
    /\ UNCHANGED <<cif, cell, mol, todo>>

InitMol ==
    /\ cif \in CifCrystals
    /\ cell \in CellValues
    /\ crst = <<>>
    /\ mol = <<>>
    /\ todo = <<>>
    /\ gpc = "start"

\* the component at rest in the specifications of the other components
IdleMol ==
    /\ cif = <<>>
    /\ cell = One
    /\ crst = <<>>
    /\ mol = <<>>
    /\ todo = <<>>
    /\ gpc = "idle"


-----------------------------------------------------------------------------
(* CarbonChain and convertCarbonChain                                      *)

\* the longest list z and the largest coordinate in it
MaxChain == 3
MaxZ == 2

\* all lists z of the converter's specification, repeated values included
ChainLists == UNION {[1..n -> 0..MaxZ] : n \in 0..MaxChain}

\* the values Uiso takes in the notebook: 0.004, 0.006 and 0.003
UisoValues == {Rat(4, 1000), Rat(6, 1000), Rat(3, 1000)}

\* CarbonChain.__init__ followed by an assignment of z
CarbonChain(zs) == [Uiso |-> Rat(4, 1000), z |-> zs]

\* AdptAtom(): a default atom of the structure adapter
AdptAtom ==
    [atomtype |-> "", xc |-> Zero, yc |-> Zero, zc |-> Zero,
     uc11 |-> Zero, uc22 |-> Zero, uc33 |-> Zero]

\* a mutant of append: the adapter keeps a reference to the one atom
\* object, so that every entry shows the object's latest state
RECURSIVE Repeated(_, _)
Repeated(a, n) == IF n = 0 THEN <<>> ELSE Append(Repeated(a, n - 1), a)

appendReference(ad, a) == Repeated(a, Len(ad) + 1)

\* AtomicStructureAdapter.append(a): stores a copy of the atom
append(ad, a) == Append(ad, a)

\* for z in thechain.z: a.zc = z; adpt.append(a)
RECURSIVE convertLoop(_, _, _)
convertLoop(ad, a, zs) ==
    IF zs = <<>>
    THEN ad
    ELSE LET a2 == [a EXCEPT !.zc = Rat(Head(zs), 1)]
         IN  convertLoop(append(ad, a2), a2, Tail(zs))

\* convertCarbonChain(thechain)
convertCarbonChain(chain) ==
    LET a == [AdptAtom EXCEPT !.atomtype = "C", !.uc11 = chain.Uiso,
                              !.uc22 = chain.Uiso, !.uc33 = chain.Uiso]
    IN  convertLoop(<<>>, a, chain.z)

\* createStructureAdapter(c5) calls the registered converter
CreateStructureAdapter ==
    /\ adpt' = convertCarbonChain(thechain)
    /\ converted' = thechain
    /\ UNCHANGED thechain

\* c5.Uiso = 0.006, c5.Uiso = 0.003
SetUiso ==
    \E u \in UisoValues :
        /\ thechain' = [thechain EXCEPT !.Uiso = u]
        /\ UNCHANGED <<adpt, converted>>

InitChain ==
    /\ thechain \in {CarbonChain(zs) : zs \in ChainLists}
    /\ adpt = NoValue
    /\ converted = NoValue

IdleChain ==
    /\ thechain = CarbonChain(<<>>)
    /\ adpt = NoValue
    /\ converted = NoValue


-----------------------------------------------------------------------------
(* LennardJonesCalculator                                                  *)
(*                                                                         *)
(* The energy of a pair at distance r is 4 epsilon lj(u) with u = r/sigma  *)
(* and lj(u) = u^-12 - u^-6.  The twelfth powers do not fit the integers   *)
(* of the model checker, so an energy is kept as a formal combination of the     *)
(* values lj(u): a function from u to the rational coefficient of lj(u).   *)
(* Two energies with equal coefficients are equal numbers.                 *)

\* self.rmax = 10
rmax == 10

\* z coordinates of the chains given to the calculator: neighbours, a pair
\* exactly rmax apart and a pair farther apart than rmax
LJPositions == {0, 1, 11}

\* the chains given to the calculator: no two atoms at the same position
LJChainLists == {zs \in UNION {[1..n -> LJPositions] : n \in 0..MaxChain} :
                    \A j, k \in 1..Len(zs) : j # k => zs[j] # zs[k]}

EpsilonValues == {1, 2}
SigmaValues == {1, 2}

\* the reduced distances u = r/sigma that can occur
ReducedDistances ==
    {Rat(Abs(p - q), s) : p \in LJPositions, q \in LJPositions,
                          s \in SigmaValues} \ {Zero}

\* the energy 0.0
ZeroEnergy == [u \in ReducedDistances |-> Zero]

\* c times the energy e
ScaleEnergy(c, e) == [u \in ReducedDistances |-> RatMul(c, e[u])]

\* bond.distance() between two atoms of a chain adapter, which lie on the
\* z axis
distance(a, b) ==
    LET d == RatSub(a.zc, b.zc) IN IF RatLt(d, Zero) THEN RatNeg(d) ELSE d

\* the attribute _vljtotal before the first evaluation sets it
Unset == <<>>

\* a mutant of _resetValue: a total that exists is kept
resetValueKeeps(old) == IF old = Unset THEN ZeroEnergy ELSE old

\* LennardJonesCalculator._resetValue
resetValue(old) == ZeroEnergy

\* a mutant of _addPairContribution: the factor 0.5 is missing
addPairContributionWhole(total, r, sumscale, eps, sig) ==
    LET nmrij == RatDiv(r, Rat(sig, 1))
    IN  [total EXCEPT ![nmrij] =
            RatAdd(@, RatMul(Rat(4 * eps, 1), Rat(sumscale, 1)))]

\* LennardJonesCalculator._addPairContribution(bond, sumscale):
\*     nmrij = bond.distance() / self.sigma
\*     vij = 4 * self.epsilon * (nmrij ** -12  -  nmrij ** -6)
\*     self._vljtotal += 0.5 * vij * sumscale
addPairContribution(total, r, sumscale, eps, sig) ==
    LET nmrij == RatDiv(r, Rat(sig, 1))
        vij == Rat(4 * eps, 1)    \* the coefficient of lj(nmrij)
    IN  [total EXCEPT ![nmrij] =
            RatAdd(@, RatMul(RatMul(Half, vij), Rat(sumscale, 1)))]

\* the pair loop of PairQuantity.eval over the sites i0 and i1 >= 1 of the
\* structure: the half sum visits every pair i1 < i0 with sumscale 2, the
\* full sum visits both orders with sumscale 1; a site is no pair with
\* itself and pairs farther apart than rmax are skipped
RECURSIVE pairLoop(_, _, _, _, _, _, _)
pairLoop(total, stru, full, i0, i1, eps, sig) ==
    IF i0 > Len(stru)
    THEN total
    ELSE IF i1 > (IF full THEN Len(stru) ELSE i0)
    THEN pairLoop(total, stru, full, i0 + 1, 1, eps, sig)
    ELSE LET r == distance(stru[i0], stru[i1])
             t == IF i0 = i1 \/ RatLt(Rat(rmax, 1), r)
                  THEN total
                  ELSE addPairContribution(total, r, IF full THEN 1 ELSE 2,
                                           eps, sig)
         IN  pairLoop(t, stru, full, i0, i1 + 1, eps, sig)

\* a mutant of eval: a call without argument evaluates no structure
evalStructureForgets(arg, held) == IF arg = NoValue THEN <<>> ELSE arg

\* PairQuantity.eval(structure): the structure evaluated, a new one or,
\* for structure=None, the one held from the last evaluation
evalStructure(arg, held) == IF arg = NoValue THEN held ELSE arg

\* LennardJonesCalculator.__call__(structure):
\*     self.eval(structure); return self._vljtotal
\* eval sets the structure, calls _resetValue and then
\* _addPairContribution for every pair
LJCall(arg) ==
    LET stru == evalStructure(arg, structure)
        total == pairLoop(resetValue(vljtotal), stru, usefullsum, 1, 1,
                          epsilon, sigma)
    IN  /\ structure' = stru
        /\ vljtotal' = total
        /\ prevcall' = lastcall
        /\ lastcall' = [made |-> TRUE, noarg |-> arg = NoValue, stru |-> stru,
                        eps |-> epsilon, sig |-> sigma, ret |-> total]
        /\ UNCHANGED <<epsilon, sigma, usefullsum, chainVars>>

\* ljcalc(c5): the chain is converted by the registered converter
CallWithChain == LJCall(convertCarbonChain(thechain))

\* ljcalc()
CallWithoutArgument == LJCall(NoValue)

\* ljcalc.epsilon = 2, or any other value
SetEpsilon ==
    \E e \in EpsilonValues :
        /\ epsilon' = e
        /\ UNCHANGED <<sigma, structure, usefullsum, vljtotal, lastcall,
                       prevcall, chainVars>>

\* ljcalc.sigma = ...
SetSigma ==
    \E sg \in SigmaValues :
        /\ sigma' = sg
        /\ UNCHANGED <<epsilon, structure, usefullsum, vljtotal, lastcall,
                       prevcall, chainVars>>

\* no call yet
NoCall ==
    [made |-> FALSE, noarg |-> FALSE, stru |-> <<>>, eps |-> 0, sig |-> 0,
     ret |-> NoValue]

\* ljcalc = LennardJonesCalculator(): class attributes epsilon = sigma = 1.0
\* and no structure yet
InitLJ ==
    /\ epsilon = 1
    /\ sigma = 1
    /\ structure = <<>>
    /\ usefullsum \in BOOLEAN
    /\ vljtotal = Unset
    /\ lastcall = NoCall
    /\ prevcall = NoCall

IdleLJ == InitLJ /\ usefullsum = FALSE

\* the chain c5 the calculator is tried on
InitLJChain ==
    /\ thechain \in {CarbonChain(zs) : zs \in LJChainLists}
    /\ adpt = NoValue
    /\ converted = NoValue


-----------------------------------------------------------------------------
(* The FitRecipe of the naphthalene notebook                               *)
(*                                                                         *)
(* The recipe is the table of its variables: a value and a fixed flag per  *)
(* name.  Restraints and the constraints of beta and of the inter-         *)
(* molecular H1.Biso derive other parameters from the variables and leave  *)
(* the table alone; the constraint of q0 is followed in q0, q1, q2, q3.    *)

\* the cell and the orientation read from the CIF file: edges in Angstrom,
\* beta in degrees; a Molecule starts with the quaternion (1, 0, 0, 0)
CifCells ==
    {[a |-> Rat(8, 1), b |-> Rat(6, 1), c |-> Rat(9, 1), beta |-> Rat(123, 1)],
     [a |-> Rat(2, 1), b |-> Rat(3, 1), c |-> Rat(4, 1), beta |-> Rat(90, 1)]}

\* the table with one more variable
Extend(table, name, value) ==
    [n \in DOMAIN table \cup {name} |-> IF n = name THEN value ELSE table[n]]

\* no variables
EmptyTable == [n \in {} |-> Zero]

\* recipe.addVar(par, name=name, value=value, fixed=fixed) and
\* recipe.newVar(name, value=value): a new variable, free unless fixed is set
addVar(recipe, name, value, isfixed) ==
    [values |-> Extend(recipe.values, name, value),
     fixed |-> Extend(recipe.fixed, name, isfixed)]

\* recipe.fix('all')
fixAll(fx) == [n \in DOMAIN fx |-> TRUE]

\* a mutant of fix: the named variables stay as they are
fixNothing(fx, names) == fx

\* recipe.fix(*names)
fix(fx, names) == [n \in DOMAIN fx |-> IF n \in names THEN TRUE ELSE fx[n]]

\* a mutant of free: every variable is freed
freeEverything(fx, names) == [n \in DOMAIN fx |-> FALSE]

\* recipe.free(*names)
free(fx, names) == [n \in DOMAIN fx |-> IF n \in names THEN FALSE ELSE fx[n]]

\* recipe.names, the names behind recipe.values: the free variables
freeNames(fx) == {n \in DOMAIN fx : ~fx[n]}

\* what one leastsq call does to a value it refines: nothing, or a shift
Shift == Rat(1, 100)

\* recipe.residual(p) as leastsq calls it last: p holds one value for every
\* free variable, here the old value of the variables outside moved and a
\* shifted value of those in moved; fixed variables keep their values
residual(vals, fx, moved) ==
    [n \in DOMAIN vals |->
        IF n \in freeNames(fx) /\ n \in moved
        THEN RatAdd(vals[n], Shift) ELSE vals[n]]

\* the constraint pwmol.q0 = fixq0(wq1, wq2, wq3), evaluated with the
\* variables of the table
ConstrainQ0(vals) ==
    /\ q1' = vals["wq1"]
    /\ q2' = vals["wq2"]
    /\ q3' = vals["wq3"]
    /\ q0' = quatzero(vals["wq1"], vals["wq2"], vals["wq3"])

\* leastsq(ocfit.residual, ocfit.values) after the table's flags became fx
\* and its values vals
Leastsq(vals, fx) ==
    \E moved \in SUBSET freeNames(fx) :
        /\ varvalues' = residual(vals, fx, moved)
        /\ varfixed' = fx
        /\ fitted' = Append(fitted, freeNames(fx))
        /\ ConstrainQ0(residual(vals, fx, moved))

\* the cell "define FitRecipe for this PDF model"
DefineFitRecipe ==
    /\ fpc = "define"
    /\ \E cf \in CifCells :
        LET r0 == [values |-> EmptyTable, fixed |-> EmptyTable]
            r1 == addVar(r0, "scale", Rat(1, 10), FALSE)
            \* pcnt.qdamp = 0.06 is the value of the parameter
            r2 == addVar(r1, "qdamp", Rat(6, 100), FALSE)
            r3 == addVar(r2, "a", cf.a, FALSE)
            r4 == addVar(r3, "b", cf.b, FALSE)
            r5 == addVar(r4, "c", cf.c, FALSE)
            r6 == addVar(r5, "beta", cf.beta, FALSE)
            r7 == addVar(r6, "bisoC", Rat(1, 1), FALSE)
            r8 == addVar(r7, "bisoH", Rat(1, 1), TRUE)
            r9 == addVar(r8, "binter", Rat(10, 1), FALSE)
            r10 == addVar(r9, "wq1", Zero, FALSE)
            r11 == addVar(r10, "wq2", Zero, FALSE)
            r12 == addVar(r11, "wq3", Zero, FALSE)
        IN  /\ varvalues' = r12.values
            /\ varfixed' = r12.fixed
            /\ initial' = r12.values
            /\ ConstrainQ0(r12.values)
    /\ fpc' = "initial"
    /\ UNCHANGED fitted

\* the cell "fix all variables and show the initial residual":
\* ocfit.fix('all'); ocfit.free('scale'); ocfit.scalarResidual()
ShowInitial ==
    /\ fpc = "initial"
    /\ varfixed' = free(fixAll(varfixed), {"scale"})
    /\ fpc' = "intermediate"
    /\ UNCHANGED <<varvalues, initial, fitted, quatVars>>

\* the cell "refine cell parameters and displacement factors"
RefineCell ==
    /\ fpc = "intermediate"
    /\ Leastsq(varvalues,
               free(free(varfixed, {"a", "b", "c"}), {"bisoC", "binter"}))
    /\ fpc' = "refined"
    /\ UNCHANGED initial

\* the cell "refine the orientation quaternion for the molecule"
RefineOrientation ==
    /\ fpc = "refined"
    /\ Leastsq(varvalues, free(varfixed, {"wq1", "wq2", "wq3"}))
    /\ fpc' = "misoriented"
    /\ UNCHANGED initial

\* the cell "rotate molecule away from the minimum": ocfit.wq1 << 0.1;
\* ocfit.fix('a', 'b', 'c', 'binter', 'wq1', 'wq2', 'wq3'); leastsq
Misorient ==
    /\ fpc = "misoriented"
    /\ Leastsq([varvalues EXCEPT !["wq1"] = Rat(1, 10)],
               fix(varfixed, {"a", "b", "c", "binter", "wq1", "wq2", "wq3"}))
    /\ fpc' = "orientedback"
    /\ UNCHANGED initial

\* the cell "refine molecule orientation to return to the correct
\* structure"
OrientBack ==
    /\ fpc = "orientedback"
    /\ Leastsq(varvalues, free(varfixed, {"wq1", "wq2", "wq3"}))
    /\ fpc' = "done"
    /\ UNCHANGED initial

\* ocfit = FitRecipe()
InitFit ==
    /\ varvalues = EmptyTable
    /\ varfixed = EmptyTable
    /\ initial = EmptyTable
    /\ fitted = <<>>
    /\ fpc = "define"

IdleFit ==
    /\ varvalues = EmptyTable
    /\ varfixed = EmptyTable
    /\ initial = EmptyTable
    /\ fitted = <<>>
    /\ fpc = "idle"


-----------------------------------------------------------------------------
(* The FitRecipe of the NaCl notebook                                      *)
(*                                                                         *)
(* The same table of variables as above.  The BVS restraint adds to the    *)
(* residual and has no entry in the table; its weight rbv.sig is state of  *)
(* the notebook.                                                           *)

\* the cubic cell edge read from NaCl.cif, in Angstrom
NaClEdges == {Rat(5, 1), Rat(6, 1)}

\* numpy.logspace(-4, 0) has 50 points
SweepLen == 50

\* how many of the fits of the sweep are followed
MaxSweep == 3

\* the decimal exponent of sigvalues[k], k = 0..SweepLen-1
sigvalues(k) == RatAdd(Rat(-4, 1), Rat(4 * k, SweepLen - 1))

\* recipe.a = value: assigning to the attribute of a variable sets its value
setValue(vals, name, value) == [vals EXCEPT ![name] = value]

\* leastsq(thefit.residual, thefit.values), the body of chattyfit(), after
\* the table's flags became fx and its values vals
LeastsqNaCl(vals, fx) ==
    \E moved \in SUBSET freeNames(fx) :
        /\ varvalues' = residual(vals, fx, moved)
        /\ varfixed' = fx
        /\ fitted' = Append(fitted, freeNames(fx))

\* the cell that links the model parameters to the fit variables: scale,
\* qdamp, delta2, the lattice parameter a of the cubic cell, the two
\* displacement parameters Uiso_0 and Uiso_4; NaCl has no free coordinates
AddVariables ==
    /\ fpc = "addvars"
    /\ \E edge \in NaClEdges :
        LET r0 == [values |-> EmptyTable, fixed |-> EmptyTable]
            r1 == addVar(r0, "scale", Rat(1, 1), FALSE)
            r2 == addVar(r1, "qdamp", Rat(3, 100), FALSE)
            r3 == addVar(r2, "delta2", Rat(5, 1), FALSE)
            r4 == addVar(r3, "a", edge, FALSE)
            r5 == addVar(r4, "Uiso_0", Rat(5, 1000), FALSE)
            r6 == addVar(r5, "Uiso_4", Rat(5, 1000), FALSE)
        IN  /\ varvalues' = r6.values
            /\ varfixed' = r6.fixed
            /\ initial' = r6.values
    /\ fpc' = "firstfit"
    /\ UNCHANGED <<fitted, naclVars>>

\* the cell "Perform the fit and plot it now": chattyfit()
FirstFit ==
    /\ fpc = "firstfit"
    /\ \E moved \in SUBSET freeNames(varfixed) :
        /\ varvalues' = residual(varvalues, varfixed, moved)
        /\ firstfit' = residual(varvalues, varfixed, moved)
    /\ fitted' = Append(fitted, freeNames(varfixed))
    /\ fpc' = "fix"
    /\ UNCHANGED <<varfixed, initial, rbvsig, avalues>>

\* the cell thefit.fix('delta2', 'Uiso_0', 'Uiso_4', 'qdamp');
\* thefit.a = 4; chattyfit()
FixAndFit ==
    /\ fpc = "fix"
    /\ LeastsqNaCl(setValue(varvalues, "a", Rat(4, 1)),
                   fix(varfixed, {"delta2", "Uiso_0", "Uiso_4", "qdamp"}))
    /\ fpc' = "sig"
    /\ UNCHANGED <<initial, naclVars>>

\* the cell rbv.sig = 0.1; chattyfit()
IncreaseWeightAndFit ==
    /\ fpc = "sig"
    /\ rbvsig' = Rat(-1, 1)
    /\ LeastsqNaCl(varvalues, varfixed)
    /\ fpc' = "sweep"
    /\ UNCHANGED <<initial, avalues, firstfit>>

\* one pass of the loop of the sweep cell:
\*     for rbv.sig in sigvalues:
\*         leastsq(thefit.residual, thefit.values)
\*         avalues.append(thefit.a.value)
SweepFit ==
    /\ fpc = "sweep"
    /\ Len(avalues) < SweepLen
    /\ Len(avalues) < MaxSweep
    /\ rbvsig' = sigvalues(Len(avalues))
    /\ LeastsqNaCl(varvalues, varfixed)
    /\ avalues' = Append(avalues, varvalues'["a"])
    /\ UNCHANGED <<initial, firstfit, fpc>>

\* thefit = FitRecipe(); rbv = cpdf.nacl.phase.restrainBVS() with the
\* library's weight sig = 1
InitNaCl ==
    /\ varvalues = EmptyTable
    /\ varfixed = EmptyTable
    /\ initial = EmptyTable
    /\ fitted = <<>>
    /\ fpc = "addvars"
    /\ rbvsig = Zero
    /\ avalues = <<>>
    /\ firstfit = EmptyTable

IdleNaCl ==
    /\ rbvsig = Zero
    /\ avalues = <<>>
    /\ firstfit = EmptyTable

-----------------------------------------------------------------------------
(* The specifications: one per component, the others idle.                 *)

IdleProfile == InitProfile /\ registry[RectangularProfileType] = 0

IdleQuat == InitQuat

\* the variables the Profile component leaves alone
OthersProfile == <<quatVars, molVars, chainVars, ljVars, fitVars, naclVars>>

InitProfileSpec ==
    InitProfile /\ IdleQuat /\ IdleMol /\ IdleChain /\ IdleLJ /\ IdleFit
    /\ IdleNaCl

NextProfileSpec ==
    \/ EvalProfile /\ UNCHANGED OthersProfile
    \/ RegistrationCell /\ UNCHANGED OthersProfile
    \/ AssignProfileByName /\ UNCHANGED OthersProfile

SpecProfile == InitProfileSpec /\ [][NextProfileSpec]_vars

\* the variables the Quat component leaves alone
OthersQuat == <<profileVars, molVars, chainVars, ljVars, fitVars, naclVars>>

InitQuatSpec ==
    InitQuat /\ IdleProfile /\ IdleMol /\ IdleChain /\ IdleLJ /\ IdleFit
    /\ IdleNaCl

NextQuatSpec ==
    \/ EvalQuatzero /\ UNCHANGED OthersQuat

SpecQuat == InitQuatSpec /\ [][NextQuatSpec]_vars

\* the variables the Mol component leaves alone
OthersMol == <<profileVars, quatVars, chainVars, ljVars, fitVars, naclVars>>

InitMolSpec ==
    InitMol /\ IdleProfile /\ IdleQuat /\ IdleChain /\ IdleLJ /\ IdleFit
    /\ IdleNaCl

NextMolSpec ==
    \/ LoadCrystal /\ UNCHANGED OthersMol
    \/ LoopBody /\ UNCHANGED OthersMol
    \/ AddMolecule /\ UNCHANGED OthersMol

SpecMol == InitMolSpec /\ [][NextMolSpec]_vars

\* the variables the Chain component leaves alone
OthersChain == <<profileVars, quatVars, molVars, ljVars, fitVars, naclVars>>

InitChainSpec ==
    InitChain /\ IdleProfile /\ IdleQuat /\ IdleMol /\ IdleLJ /\ IdleFit
    /\ IdleNaCl

NextChainSpec ==
    \/ CreateStructureAdapter /\ UNCHANGED OthersChain
    \/ SetUiso /\ UNCHANGED OthersChain

SpecChain == InitChainSpec /\ [][NextChainSpec]_vars

\* the variables the LJ component leaves alone
OthersLJ == <<profileVars, quatVars, molVars, fitVars, naclVars>>

InitLJSpec ==
    InitLJ /\ InitLJChain /\ IdleProfile /\ IdleQuat /\ IdleMol /\ IdleFit
    /\ IdleNaCl

NextLJSpec ==
    \/ CallWithChain /\ UNCHANGED OthersLJ
    \/ CallWithoutArgument /\ UNCHANGED OthersLJ
    \/ SetEpsilon /\ UNCHANGED OthersLJ
    \/ SetSigma /\ UNCHANGED OthersLJ

SpecLJ == InitLJSpec /\ [][NextLJSpec]_vars

\* the variables the Fit component leaves alone
OthersFit == <<profileVars, molVars, chainVars, ljVars, naclVars>>

InitFitSpec ==
    InitFit /\ InitQuat /\ IdleProfile /\ IdleMol /\ IdleChain /\ IdleLJ
    /\ IdleNaCl

NextFitSpec ==
    \/ DefineFitRecipe /\ UNCHANGED OthersFit
    \/ ShowInitial /\ UNCHANGED OthersFit
    \/ RefineCell /\ UNCHANGED OthersFit
    \/ RefineOrientation /\ UNCHANGED OthersFit
    \/ Misorient /\ UNCHANGED OthersFit
    \/ OrientBack /\ UNCHANGED OthersFit

SpecFit == InitFitSpec /\ [][NextFitSpec]_vars

\* the variables the NaCl component leaves alone
OthersNaCl == <<profileVars, quatVars, molVars, chainVars, ljVars>>

InitNaClSpec ==
    InitNaCl /\ IdleProfile /\ IdleQuat /\ IdleMol /\ IdleChain /\ IdleLJ

NextNaClSpec ==
    \/ AddVariables /\ UNCHANGED OthersNaCl
    \/ FirstFit /\ UNCHANGED OthersNaCl
    \/ FixAndFit /\ UNCHANGED OthersNaCl
    \/ IncreaseWeightAndFit /\ UNCHANGED OthersNaCl
    \/ SweepFit /\ UNCHANGED OthersNaCl

SpecNaCl == InitNaClSpec /\ [][NextNaClSpec]_vars

-----------------------------------------------------------------------------
\* sum of the squares of the arguments of the last quatzero call
SumSquares == RatAdd(RatAdd(RatMul(q1, q1), RatMul(q2, q2)), RatMul(q3, q3))

MoleculeHoldsAllAtoms ==
    gpc \notin {"idle", "start", "loop"} =>
        /\ gpc = "done"
        /\ Len(crst) = 1
        /\ crst[1].kind = "molecule"
        /\ crst[1].name = <<"mol", 0>>
        /\ Len(crst[1].atoms) = Len(cif)
        /\ \A j \in 1..Len(cif) :
              /\ Cardinality({k \in 1..Len(crst[1].atoms) :
                                 crst[1].atoms[k].name = cif[j].name}) = 1
              /\ \A k \in 1..Len(crst[1].atoms) :
                    crst[1].atoms[k].name = cif[j].name
                        => crst[1].atoms[k].sp = cif[j].sp
        /\ \A k \in 1..Len(crst) : crst[k].kind # "atom"

\* C2 witness: the function returned for a CIF of several atoms of both
\* elements
MoleculeWitness ==
    /\ gpc = "done"
    /\ Len(cif) >= 3
    /\ \E j, k \in 1..Len(cif) : cif[j].sp # cif[k].sp

\* C5: the adapter made from a chain with a list z of length n holds exactly
\* n atoms in the order of the list; the i-th atom has zc = z[i],
\* xc = yc = 0, atomtype 'C' and uc11 = uc22 = uc33 = the chain's Uiso, so
\* the atoms keep their own z although one atom object is changed and
\* appended repeatedly.
AdapterMatchesChain ==
    adpt # NoValue =>
        /\ Len(adpt) = Len(converted.z)
        /\ \A i \in 1..Len(adpt) :
              /\ adpt[i].zc = Rat(converted.z[i], 1)
              /\ adpt[i].xc = Zero
              /\ adpt[i].yc = Zero
              /\ adpt[i].atomtype = "C"
              /\ adpt[i].uc11 = converted.Uiso
              /\ adpt[i].uc22 = converted.Uiso
              /\ adpt[i].uc33 = converted.Uiso

\* C5 witness: an adapter of three atoms whose first and last z differ,
\* made after Uiso was changed
AdapterWitness ==
    /\ adpt # NoValue
    /\ Len(adpt) = 3
    /\ adpt[1].zc # adpt[3].zc
    /\ adpt[1].uc11 = Rat(6, 1000)

\* the pairs of sites i < j of a structure that are u * sig apart and no
\* farther apart than rmax
PairsAt(stru, sig, u) ==
    {p \in (1..Len(stru)) \X (1..Len(stru)) :
        /\ p[1] < p[2]
        /\ RatLe(distance(stru[p[1]], stru[p[2]]), Rat(rmax, 1))
        /\ RatDiv(distance(stru[p[1]], stru[p[2]]), Rat(sig, 1)) = u}

\* the sum over all unordered pairs within rmax of 4 eps lj(r/sig)
PairSum(stru, eps, sig) ==
    [u \in ReducedDistances |->
        Rat(4 * eps * Cardinality(PairsAt(stru, sig, u)), 1)]

\* C4: every call returns the sum over all unordered atom pairs within
\* rmax = 10 of 4 epsilon ((sigma/r)^12 - (sigma/r)^6), every pair counted
\* once, whether the loop visits a pair twice or once with sumscale 2.
LennardJonesSumsEveryPairOnce ==
    lastcall.made =>
        /\ lastcall.ret = PairSum(lastcall.stru, lastcall.eps, lastcall.sig)
        /\ vljtotal = lastcall.ret

\* C4 witness: a call on a chain with a pair within rmax, a pair exactly
\* rmax apart and a pair beyond rmax, with epsilon and sigma changed
LennardJonesWitness ==
    /\ lastcall.made
    /\ Len(lastcall.stru) = 3
    /\ lastcall.eps = 2
    /\ lastcall.sig = 2
    /\ lastcall.ret # ZeroEnergy

\* C7: the total is cleared at the beginning of every evaluation: a call
\* on the same structure with the same epsilon and sigma as the call before
\* returns the same value.
RepeatedCallSameValue ==
    (/\ lastcall.made
     /\ prevcall.made
     /\ lastcall.stru = prevcall.stru
     /\ lastcall.eps = prevcall.eps
     /\ lastcall.sig = prevcall.sig) => lastcall.ret = prevcall.ret

\* C7 witness: two calls in a row on the same chain with the same
\* parameters and an energy other than 0
RepeatedCallWitness ==
    /\ lastcall.made
    /\ prevcall.made
    /\ lastcall.stru = prevcall.stru
    /\ lastcall.eps = prevcall.eps
    /\ lastcall.sig = prevcall.sig
    /\ lastcall.ret # ZeroEnergy

\* C8: a call without argument evaluates the structure of the call before
\* with the current parameters; when epsilon went from 1 to 2 in between
\* (sigma unchanged) it returns exactly twice the earlier value.
NoArgumentReevaluatesLast ==
    (lastcall.made /\ lastcall.noarg /\ prevcall.made) =>
        /\ lastcall.stru = prevcall.stru
        /\ (prevcall.eps = 1 /\ lastcall.eps = 2 /\ lastcall.sig = prevcall.sig)
              => lastcall.ret = ScaleEnergy(Rat(2, 1), prevcall.ret)

\* C8 witness: ljcalc(c5) with epsilon 1, then ljcalc() with epsilon 2 on a
\* chain with an energy other than 0
NoArgumentWitness ==
    /\ lastcall.made /\ lastcall.noarg
    /\ prevcall.made /\ ~prevcall.noarg
    /\ prevcall.stru = convertCarbonChain(thechain)
    /\ prevcall.eps = 1 /\ lastcall.eps = 2
    /\ lastcall.sig = prevcall.sig
    /\ prevcall.ret # ZeroEnergy

\* the variables the notebook never frees
NeverFreed == {"bisoH", "qdamp", "beta"}

\* C10: bisoH, qdamp and beta are refined by none of the leastsq calls; at
\* every report, the final ORIENTED BACK one included, bisoH is 1 and qdamp
\* and beta have their initial values.
HydrogenBisoKeptConstant ==
    /\ \A k \in 1..Len(fitted) : fitted[k] \cap NeverFreed = {}
    /\ fpc \notin {"idle", "define"} =>
          /\ varvalues["bisoH"] = Rat(1, 1)
          /\ \A n \in NeverFreed : varvalues[n] = initial[n]

\* C10 witness: the ORIENTED BACK report after four leastsq calls that
\* moved scale and wq2 away from their initial values
HydrogenBisoWitness ==
    /\ fpc = "done"
    /\ Len(fitted) = 4
    /\ varvalues["scale"] # initial["scale"]
    /\ varvalues["wq2"] # initial["wq2"]

\* C3: for every fwhm > 0 the value returned by __call__(x, fwhm) is 1/fwhm
\* for -fwhm/2 < x < +fwhm/2 and 0 for every other x, so that the height
\* times the width fwhm is 1.
RectangularUnitArea ==
    (y # NoValue /\ RatLt(Zero, fwhm)) =>
        /\ (RatLt(RatNeg(RatMul(fwhm, Half)), x) /\ RatLt(x, RatMul(fwhm, Half)))
              => (y = <<fwhm[2], fwhm[1]>> /\ RatMul(y, fwhm) = One)
        /\ (RatLe(x, RatNeg(RatMul(fwhm, Half))) \/ RatLe(RatMul(fwhm, Half), x))
              => y = Zero

\* C3 witness: a call inside the rectangle returned a height other than 1
RectangularUnitAreaWitness ==
    /\ y # NoValue
    /\ RatLt(Zero, fwhm)
    /\ RatLt(RatNeg(RatMul(fwhm, Half)), x)
    /\ RatLt(x, RatMul(fwhm, Half))
    /\ y # One
    /\ y # Zero

\* C9: for every fwhm > 0, xboundlo = -xboundhi = -fwhm/2, the returned value
\* is 0 at and beyond either bound and non-zero strictly between the bounds.
BoundsAgreeWithValues ==
    (y # NoValue /\ RatLt(Zero, fwhm)) =>
        /\ xboundlo(fwhm) = RatNeg(xboundhi(fwhm))
        /\ xboundlo(fwhm) = RatNeg(RatDiv(fwhm, Rat(2, 1)))
        /\ (RatLe(x, xboundlo(fwhm)) \/ RatLe(xboundhi(fwhm), x)) => y = Zero
        /\ (RatLt(xboundlo(fwhm), x) /\ RatLt(x, xboundhi(fwhm))) => y # Zero

\* C9 witness: a call exactly at the upper bound returned 0
BoundsAgreeWitness ==
    /\ y # NoValue
    /\ RatLt(Zero, fwhm)
    /\ x = xboundhi(fwhm)
    /\ y = Zero

\* C6: after every evaluation of the registration cell no exception was
\* raised and 'rectangularprofile' is registered exactly once, whether or
\* not the name was registered at the start.
RegistrationCellRepeatable ==
    cellruns > 0 =>
        /\ cellerror = "none"
        /\ registry[RectangularProfileType] = 1

\* C6 witness: the cell was evaluated more than once in a row
RegistrationCellWitness ==
    /\ cellruns >= 2
    /\ cellerror = "none"
    /\ registry[RectangularProfileType] = 1

\* the variables fixed after the first fit of the NaCl notebook
FixedAfterFirstFit == {"delta2", "Uiso_0", "Uiso_4", "qdamp"}

\* C11: every fit after thefit.fix('delta2', 'Uiso_0', 'Uiso_4', 'qdamp')
\* and thefit.a = 4 (the two chattyfit calls and the fits of the sweep)
\* refines exactly the remaining free variables scale and a, and delta2,
\* Uiso_0, Uiso_4 and qdamp keep the values the first fit reached.
FixedVariablesKeepFirstFit ==
    /\ \A k \in 2..Len(fitted) : fitted[k] = {"scale", "a"}
    /\ Len(fitted) >= 2 =>
          \A n \in FixedAfterFirstFit : varvalues[n] = firstfit[n]

\* C11 witness: after two fits of the sweep the first fit had moved delta2
\* and qdamp, and the later fits moved scale and moved a away from 4
FixedVariablesWitness ==
    /\ fpc = "sweep"
    /\ Len(avalues) >= 2
    /\ firstfit["delta2"] # initial["delta2"]
    /\ firstfit["qdamp"] # initial["qdamp"]
    /\ varvalues["scale"] # firstfit["scale"]
    /\ varvalues["a"] # Rat(4, 1)

=============================================================================
